---------------------------- MODULE Spec2Model ----------------------------
(***************************************************************************)
(* A model of the big_number crate (src/src/lib.rs): the fixed-length     *)
(* BigNumber, its constructors, its ordering, the four in-place           *)
(* arithmetic operators and rotated_right.                                 *)
(*                                                                         *)
(* Scaling.  The crate has NUMBER_SIZE = 2550 limbs, BASE = u16::MAX =     *)
(* 65535, and u32 limb storage and accumulators, so 2^32 = (BASE + 1)^2.   *)
(* The model keeps this relation with a small NUMBER_SIZE and BASE: U32,   *)
(* the number of values of a u32, is (BASE + 1)^2.                         *)
(***************************************************************************)
EXTENDS Integers, FiniteSets, Sequences, TLC

\* lib.rs:10  pub const NUMBER_SIZE (2550 in the crate), scaled.
NUMBER_SIZE == 3
\* lib.rs:11  pub const BASE: u32 = u16::MAX as u32 (65535 in the crate), scaled.
BASE == 3
\* The number of API calls of one run.
MaxCalls == 5
\* The largest shift handed to rotated_right.
MaxShift == 4

\* lib.rs:12,15  BaseType = UpperBase = u32: the number of values of a limb
\* slot and of an accumulator; 2^32 = (u16::MAX + 1)^2.
U32 == (BASE + 1) * (BASE + 1)
\* The radix spec.md names (65536 = u16::MAX + 1).
SpecBase == BASE + 1

Idx == 0 .. (NUMBER_SIZE - 1)

VARIABLES
    x,                \* the receiver (self) of the in-place operators
    y,                \* the operand (rhs, divisor)
    ncalls,           \* API calls made so far
    last,             \* the last call: its name, its BigNumber operands as they were, its scalar argument
    failure,          \* "none", or "overflow" after an arithmetic-overflow panic (a build with overflow checks)
    pc,               \* "idle", or "loop" inside div_assign's for loop
    i,                \* div_assign: the digit position
    quotient,         \* div_assign: quotient
    remainder,        \* div_assign: remainder
    divisor           \* div_assign: divisor (passed by value)

vars == <<x, y, ncalls, last, failure, pc, i, quotient, remainder, divisor>>

---------------------------------------------------------------------------
(* Constructors and queries                                                *)

\* BigNumber::empty / new / default: prec = [0; NUMBER_SIZE]
Empty == [k \in Idx |-> 0]

\* BigNumber::from: s.prec[0] = num
From(num) == [Empty EXCEPT ![0] = num]

\* BigNumber::from_upper: s.prec[0] = num.rem_euclid(BASE); s.prec[1] = num / BASE
FromUpper(num) == [[Empty EXCEPT ![0] = num % BASE] EXCEPT ![1] = num \div BASE]

\* BigNumber::is_zero
IsZero(a) == \A k \in Idx : a[k] = 0

\* A shift that fills with zeros in place of the limbs that wrap around.
ShiftedNoWrap(a, shift) ==
    LET s == shift % NUMBER_SIZE
    IN  IF s # 0 THEN [k \in Idx |-> IF k + s < NUMBER_SIZE THEN a[k + s] ELSE 0] ELSE a

\* BigNumber::rotated_right: self.prec[i] = temp[(i + shift) % NUMBER_SIZE]
RotatedRight(a, shift) ==
    LET s == shift % NUMBER_SIZE
    IN  IF s # 0 THEN [k \in Idx |-> a[(k + s) % NUMBER_SIZE]] ELSE a

\* Ord::cmp: limbs compared from index NUMBER_SIZE-1 down to 0
RECURSIVE CmpFrom(_, _, _)
CmpFrom(a, b, k) ==
    IF k < 0 THEN "Equal"
    ELSE IF a[k] < b[k] THEN "Less"
    ELSE IF a[k] > b[k] THEN "Greater"
    ELSE CmpFrom(a, b, k - 1)

Cmp(a, b) == CmpFrom(a, b, NUMBER_SIZE - 1)

\* PartialOrd: rhs > *self
Gt(a, b) == Cmp(a, b) = "Greater"

---------------------------------------------------------------------------
(* add_assign                                                              *)

\* The carry with the comparison off by one (<= for <).
AddCarryOffByOne(num) == IF num <= BASE THEN 0 ELSE 1

\* add_assign: if num < BASE { carry = 0 } else { carry = 1 }
AddCarry(num) == IF num < BASE THEN 0 ELSE 1

\* add_assign's for loop from limb k on.  raw is the sum before the u32
\* accumulator wraps; overflow records that some sum did not fit in it;
\* carries collects every carry the loop passed on.
RECURSIVE AddLoop(_, _, _, _, _, _, _)
AddLoop(self, rhs, k, carry, result, ovf, carries) ==
    IF k = NUMBER_SIZE
    THEN [prec |-> result, overflow |-> ovf, carries |-> carries, carry_out |-> carry]
    ELSE LET raw == self[k] + rhs[k] + carry
             num == raw % U32
         IN  AddLoop(self, rhs, k + 1, AddCarry(num),
                     [result EXCEPT ![k] = num % BASE],
                     ovf \/ raw >= U32, carries \cup {AddCarry(num)})

AddAssign(self, rhs) == AddLoop(self, rhs, 0, 0, Empty, FALSE, {})

---------------------------------------------------------------------------
(* sub_assign                                                              *)

\* The borrow with the comparison off by one (> for >=).
SubBorrowOffByOne(num) == IF num > 0 THEN 0 ELSE -1

\* sub_assign: if num >= 0 { carry = 0 } else { carry = -1 }
SubBorrow(num) == IF num >= 0 THEN 0 ELSE -1

\* sub_assign's for loop from limb k on (i64 arithmetic, rem_euclid)
RECURSIVE SubLoop(_, _, _, _, _)
SubLoop(self, rhs, k, carry, result) ==
    IF k = NUMBER_SIZE
    THEN result
    ELSE LET num == self[k] - rhs[k] + carry
         IN  SubLoop(self, rhs, k + 1, SubBorrow(num), [result EXCEPT ![k] = num % BASE])

\* sub_assign: if rhs > *self { *self = result; return }
SubAssign(self, rhs) ==
    IF Gt(rhs, self) THEN Empty ELSE SubLoop(self, rhs, 0, 0, Empty)

---------------------------------------------------------------------------
(* mul_assign                                                              *)

\* The limb stored without the reduction modulo BASE.
MulLimbUnreduced(uvb) == uvb

\* mul_assign: w[i + j] = uvb.rem_euclid(BASE)
MulLimb(uvb) == uvb % BASE

\* The carry of the previous row kept in place of the reset to 0.
MulRowCarryKept(c) == c

\* mul_assign: let mut c = 0 at the head of each pass of the outer loop
MulRowCarry(c) == 0

\* mul_assign's two loops, flattened: step n is i = n / NUMBER_SIZE,
\* j = n % NUMBER_SIZE.  accs collects every accumulator value before the
\* u32 wraps, carries every carry computed.
RECURSIVE MulLoop(_, _, _, _, _, _, _, _)
MulLoop(self, rhs, n, w, c, ovf, accs, carries) ==
    IF n = NUMBER_SIZE * NUMBER_SIZE
    THEN [prec |-> w, overflow |-> ovf, accs |-> accs, carries |-> carries]
    ELSE LET ii == n \div NUMBER_SIZE
             jj == n % NUMBER_SIZE
             c0 == IF jj = 0 THEN MulRowCarry(c) ELSE c
         IN  IF ii + jj > NUMBER_SIZE - 1
             THEN MulLoop(self, rhs, n + 1, w, c0, ovf, accs, carries)
             ELSE LET raw == w[ii + jj] + self[ii] * rhs[jj] + c0
                      uvb == raw % U32
                  IN  MulLoop(self, rhs, n + 1,
                              [w EXCEPT ![ii + jj] = MulLimb(uvb)],
                              uvb \div BASE,
                              ovf \/ raw >= U32,
                              accs \cup {raw}, carries \cup {uvb \div BASE})

MulAssign(self, rhs) == MulLoop(self, rhs, 0, Empty, 0, FALSE, {}, {})

---------------------------------------------------------------------------
(* The value a limb array stands for                                       *)

RECURSIVE ValueFrom(_, _)
ValueFrom(a, k) == IF k = NUMBER_SIZE THEN 0 ELSE a[k] + BASE * ValueFrom(a, k + 1)

\* spec.md section 3: the sum of limb[i] * BASE^i
Value(a) == ValueFrom(a, 0)

\* spec.md section 3: every limb lies in [0, BASE)
Reduced(a) == \A k \in Idx : a[k] \in 0 .. (BASE - 1)

ReducedNumbers == [Idx -> 0 .. (BASE - 1)]

\* The record of a call: name, BigNumber arguments, scalar argument.
Call(op, a, b, n) == [op |-> op, a |-> a, b |-> b, n |-> n]

---------------------------------------------------------------------------
(* The state machine                                                       *)

\* A call starts when no call is running and no panic has ended the program.
Ready == pc = "idle" /\ failure = "none" /\ ncalls < MaxCalls

\* The locals of div_assign, which no other call touches.
DivIdle == UNCHANGED <<pc, i, quotient, remainder, divisor>>

\* let y = BigNumber::new()
New ==
    /\ Ready
    /\ y' = Empty
    /\ last' = Call("new", Empty, Empty, 0)
    /\ ncalls' = ncalls + 1
    /\ UNCHANGED <<x, failure>>
    /\ DivIdle

\* let y = BigNumber::from(num), num < BASE
FromCall ==
    /\ Ready
    /\ \E num \in 0 .. (BASE - 1) :
          /\ y' = From(num)
          /\ last' = Call("from", Empty, Empty, num)
    /\ ncalls' = ncalls + 1
    /\ UNCHANGED <<x, failure>>
    /\ DivIdle

\* let y = BigNumber::from_upper(num), num < BASE^2
FromUpperCall ==
    /\ Ready
    /\ \E num \in 0 .. (BASE * BASE - 1) :
          /\ y' = FromUpper(num)
          /\ last' = Call("from_upper", Empty, Empty, num)
    /\ ncalls' = ncalls + 1
    /\ UNCHANGED <<x, failure>>
    /\ DivIdle

\* let x = y  (BigNumber is Copy)
CopyToX ==
    /\ Ready
    /\ x' = y
    /\ last' = Call("copy", Empty, Empty, 0)
    /\ ncalls' = ncalls + 1
    /\ UNCHANGED <<y, failure>>
    /\ DivIdle

\* let y = x
CopyToY ==
    /\ Ready
    /\ y' = x
    /\ last' = Call("copy", Empty, Empty, 0)
    /\ ncalls' = ncalls + 1
    /\ UNCHANGED <<x, failure>>
    /\ DivIdle

\* x.rotated_right(shift)
Rotate ==
    /\ Ready
    /\ \E shift \in 0 .. MaxShift :
          /\ x' = RotatedRight(x, shift)
          /\ last' = Call("rotated_right", x, Empty, shift)
    /\ ncalls' = ncalls + 1
    /\ UNCHANGED <<y, failure>>
    /\ DivIdle

\* What an overflowing u32 operation does: a build with overflow checks
\* panics (TRUE), a build without them wraps (FALSE).
Panics(overflows) == IF overflows THEN BOOLEAN ELSE {FALSE}

\* The end of an operator whose accumulator may overflow: the panic leaves
\* self as it was; without it the wrapped values are stored.
Finish(r) ==
    \E panic \in Panics(r.overflow) :
        IF panic
        THEN failure' = "overflow" /\ x' = x
        ELSE failure' = failure /\ x' = r.prec

\* x += y
Add ==
    /\ Ready
    /\ Finish(AddAssign(x, y))
    /\ last' = Call("add", x, y, 0)
    /\ ncalls' = ncalls + 1
    /\ UNCHANGED y
    /\ DivIdle

\* x -= y
Sub ==
    /\ Ready
    /\ x' = SubAssign(x, y)
    /\ last' = Call("sub", x, y, 0)
    /\ ncalls' = ncalls + 1
    /\ UNCHANGED <<y, failure>>
    /\ DivIdle

\* x *= y
Mul ==
    /\ Ready
    /\ Finish(MulAssign(x, y))
    /\ last' = Call("mul", x, y, 0)
    /\ ncalls' = ncalls + 1
    /\ UNCHANGED y
    /\ DivIdle

\* div_assign: shifted_divisor = divisor; shifted_divisor.rotated_right(i)
ShiftedDivisor == RotatedRight(divisor, i)

\* x /= y, up to the head of the for loop: quotient = new(), remainder = *dividend
DivBegin ==
    /\ Ready
    /\ pc' = "loop"
    /\ quotient' = Empty
    /\ remainder' = x
    /\ divisor' = y
    /\ i' = NUMBER_SIZE - 1
    /\ last' = Call("div", x, y, 0)
    /\ ncalls' = ncalls + 1
    /\ UNCHANGED <<x, y, failure>>

\* One pass of the while loop: remainder -= shifted_divisor; quotient.prec[i] += 1
DivPass ==
    /\ pc = "loop" /\ failure = "none"
    /\ Gt(remainder, ShiftedDivisor)
    /\ remainder' = SubAssign(remainder, ShiftedDivisor)
    /\ \E panic \in Panics(quotient[i] + 1 >= U32) :
          IF panic
          THEN failure' = "overflow" /\ quotient' = quotient
          ELSE failure' = failure /\ quotient' = [quotient EXCEPT ![i] = (quotient[i] + 1) % U32]
    /\ UNCHANGED <<x, y, ncalls, last, pc, i, divisor>>

\* The while condition is false and digits are left: the next pass of the for loop
DivNextDigit ==
    /\ pc = "loop" /\ failure = "none"
    /\ ~Gt(remainder, ShiftedDivisor)
    /\ i > 0
    /\ i' = i - 1
    /\ UNCHANGED <<x, y, ncalls, last, failure, pc, quotient, remainder, divisor>>

\* The for loop is over: *dividend = quotient (the q_len loop before it
\* writes only its own local)
DivEnd ==
    /\ pc = "loop" /\ failure = "none"
    /\ ~Gt(remainder, ShiftedDivisor)
    /\ i = 0
    /\ x' = quotient
    /\ pc' = "idle"
    /\ UNCHANGED <<y, ncalls, last, failure, i, quotient, remainder, divisor>>

DivStep == DivPass \/ DivNextDigit \/ DivEnd

Next ==
    \/ New
    \/ FromCall
    \/ FromUpperCall
    \/ CopyToX
    \/ CopyToY
    \/ Rotate
    \/ Add
    \/ Sub
    \/ Mul
    \/ DivBegin
    \/ DivPass
    \/ DivNextDigit
    \/ DivEnd

\* A program that starts with two zero values and makes MaxCalls calls.
Init ==
    /\ x = Empty
    /\ y = Empty
    /\ ncalls = 0
    /\ last = Call("new", Empty, Empty, 0)
    /\ failure = "none"
    /\ pc = "idle"
    /\ i = 0
    /\ quotient = Empty
    /\ remainder = Empty
    /\ divisor = Empty

Spec == Init /\ [][Next]_vars

\* One call on any two values with reduced limbs.
InitOps ==
    /\ x \in ReducedNumbers
    /\ y \in ReducedNumbers
    /\ ncalls = MaxCalls - 1
    /\ last = Call("new", Empty, Empty, 0)
    /\ failure = "none"
    /\ pc = "idle"
    /\ i = 0
    /\ quotient = Empty
    /\ remainder = Empty
    /\ divisor = Empty

SpecOps == InitOps /\ [][Next]_vars

\* One division of any reduced value by any other.  The code is
\* sequential: a call that has begun runs on.
NextDiv == DivBegin \/ DivPass \/ DivNextDigit \/ DivEnd

SpecDiv == InitOps /\ [][NextDiv]_vars /\ WF_vars(DivStep)

---------------------------------------------------------------------------
(* The claims                                                              *)

Done(op) == last.op = op /\ pc = "idle"

ReducedOperands == Reduced(last.a) /\ Reduced(last.b)

Modulus == BASE ^ NUMBER_SIZE

\* C1: starting from zero, from(v < BASE) and from_upper(v < BASE^2), after
\* any sequence of add, subtract, multiply and divide, every limb of every
\* BigNumber lies in [0, BASE).
C1_LimbsReduced == Reduced(x) /\ Reduced(y)

\* C2: for reduced a and nonzero reduced b, a / b is the floor quotient q,
\* the one integer with q*b <= a < (q+1)*b.
C2_FloorQuotient ==
    (Done("div") /\ failure = "none" /\ ReducedOperands /\ ~IsZero(last.b)) =>
        /\ Value(x) * Value(last.b) <= Value(last.a)
        /\ Value(last.a) < (Value(x) + 1) * Value(last.b)

\* C3: a division by the zero value ends in a DivisionByZero failure: it
\* runs no pass of the subtraction loop and does not replace the dividend.
C3_DivisionByZeroFails ==
    (last.op = "div" /\ IsZero(last.b)) =>
        /\ pc = "loop" => quotient = Empty
        /\ pc = "idle" => (failure = "DivisionByZero" /\ x = last.a)

\* C4: for reduced a and b, a - b is zero when b > a, and (a - b) + b = a
\* when b <= a.
C4_SubClampedInverse ==
    (Done("sub") /\ ReducedOperands) =>
        IF Gt(last.b, last.a)
        THEN x = Empty
        ELSE AddAssign(x, last.b).prec = last.a

\* C4's case: a subtraction with b <= a that borrows out of limb 0.
C4_Witness ==
    /\ Done("sub") /\ ReducedOperands
    /\ ~Gt(last.b, last.a)
    /\ last.a[0] < last.b[0]
    /\ ~IsZero(x)

\* C5: for reduced a and b, a + b has the value (a + b) mod BASE^NUMBER_SIZE,
\* every carry between limbs is 0 or 1, and the carry out of the last limb
\* is dropped: the call fails in no build and the result keeps its length.
C5_AddModular ==
    (Done("add") /\ ReducedOperands) =>
        LET r == AddAssign(last.a, last.b)
            sum == Value(last.a) + Value(last.b)
        IN  /\ failure = "none"
            /\ Value(x) = sum % Modulus
            /\ r.carries \subseteq {0, 1}
            /\ r.carry_out = sum \div Modulus
            /\ DOMAIN x = Idx

\* C5's case: an addition whose true sum does not fit in NUMBER_SIZE limbs.
C5_Witness ==
    /\ Done("add") /\ ReducedOperands
    /\ Value(last.a) + Value(last.b) >= Modulus
    /\ ~IsZero(x)
    /\ failure = "none"

\* C6: for reduced a and b, a * b has the value (a * b) mod
\* BASE^NUMBER_SIZE; a * zero is zero, a * from(1) is a, and the product is
\* exact while it fits in NUMBER_SIZE limbs.
C6_MulModular ==
    (Done("mul") /\ ReducedOperands) =>
        LET prod == Value(last.a) * Value(last.b)
        IN  /\ failure = "none"
            /\ Value(x) = prod % Modulus
            /\ IsZero(last.b) => x = Empty
            /\ last.b = From(1) => x = last.a
            /\ prod < Modulus => Value(x) = prod

\* C6's case: a multiplication whose true product is cut to the low limbs.
C6_Witness ==
    /\ Done("mul") /\ ReducedOperands
    /\ Value(last.a) * Value(last.b) >= Modulus
    /\ ~IsZero(x)
    /\ failure = "none"

\* C7: with the radix 65536 (u16::MAX + 1), from_upper(v) has limb 0 =
\* v mod 65536, limb 1 = v div 65536 and the rest 0, so that limb 0 and
\* limb 1 read back as v, every limb below the radix.
C7_FromUpperRadix ==
    last.op = "from_upper" =>
        /\ y[0] = last.n % SpecBase
        /\ y[1] = last.n \div SpecBase
        /\ \A k \in Idx : k >= 2 => y[k] = 0
        /\ y[0] + SpecBase * y[1] = last.n
        /\ \A k \in Idx : y[k] < SpecBase

\* C8: rotated_right(shift) moves the limb at index j to index
\* (j + k) mod NUMBER_SIZE, k = shift mod NUMBER_SIZE; k = 0 changes nothing.
C8_RotateRight ==
    last.op = "rotated_right" =>
        LET k == last.n % NUMBER_SIZE
        IN  /\ \A j \in Idx : x[(j + k) % NUMBER_SIZE] = last.a[j]
            /\ k = 0 => x = last.a

DivInScope == last.op = "div" /\ pc = "loop" /\ ReducedOperands /\ ~IsZero(last.b)

\* C9: div_assign ends for every reduced dividend and nonzero reduced
\* divisor: at every digit the rotated divisor is nonzero, every pass of
\* the while loop makes the remainder smaller, and its subtraction is never
\* the one that clamps to zero.
C9_DivTerminates ==
    /\ [](DivInScope => ~IsZero(ShiftedDivisor))
    /\ [][(DivInScope /\ DivPass) =>
            /\ Value(remainder') < Value(remainder)
            /\ Gt(remainder, remainder')
            /\ ~Gt(ShiftedDivisor, remainder)]_vars
    /\ (DivInScope ~> (pc = "idle" \/ failure # "none"))

\* C9's case: a division by a nonzero divisor that has run passes at two
\* digit positions.
C9_Witness ==
    /\ DivInScope
    /\ Cardinality({k \in Idx : quotient[k] > 0}) >= 2

\* C10: in mul_assign on reduced operands every accumulator value
\* w[i+j] + self[i]*rhs[j] + carry fits in the u32 accumulator, and every
\* carry computed from it is below BASE.
C10_MulAccumulatorFits ==
    (Done("mul") /\ ReducedOperands) =>
        LET r == MulAssign(last.a, last.b)
        IN  /\ \A v \in r.accs : v <= U32 - 1
            /\ \A c \in r.carries : c < BASE
            /\ ~r.overflow

\* C10's case: a multiplication that reaches the largest accumulator value,
\* (BASE-1) + (BASE-1)^2 + (BASE-1), and the largest carry.
C10_Witness ==
    /\ Done("mul") /\ ReducedOperands
    /\ (BASE * BASE - 1) \in MulAssign(last.a, last.b).accs
    /\ (BASE - 1) \in MulAssign(last.a, last.b).carries

=============================================================================
